---- MODULE Spec2Model ----
(***************************************************************************)
(* A model of pge_plots.py: one run of the Streamlit script.               *)
(*                                                                         *)
(* Text is modelled as sequences of one-character strings, so that         *)
(* str.startswith, str.split and the zip regex are computed character by   *)
(* character.  Line numbers are zero-based, as in the code.  The alphabet  *)
(* is ASCII, on which bytes.decode("utf-8") maps each byte to the same     *)
(* character.                                                              *)
(***************************************************************************)
EXTENDS Integers, Sequences, FiniteSets, TLC

VARIABLES
    upload_csv,         \* the uploaded / default document: a sequence of lines, or NoFile
    file_pos,           \* read position of upload_csv, in lines from the start
    pc,                 \* position of the script
    address_line_num,   \* local of get_zip_header_line_col_names (-1 is None)
    header_address,     \* the HeaderAddress returned, or NoHeader
    error_msg,          \* what st.error / the uncaught exception showed
    csv_start,          \* position read_csv started reading from (-1: not yet)
    csv_skipped,        \* number of lines read_csv skipped (-1: not yet)
    df,                 \* rows of the energy table
    electric_map_df,    \* energy pivot
    weather_fetched,    \* weather_hourly_df as get_process_weather returned it (line 484)
    weather_hourly_df,  \* rows of the weather table
    weather_map_df,     \* weather pivot
    custom_ticks,       \* CustomTicks
    charts              \* st.plotly_chart calls made so far

vars == << upload_csv, file_pos, pc, address_line_num, header_address, error_msg,
           csv_start, csv_skipped, df, electric_map_df, weather_fetched,
           weather_hourly_df, weather_map_df, custom_ticks, charts >>

(***************************************************************************)
(* Text helpers                                                            *)
(***************************************************************************)
Digits == {"0", "1", "2", "3", "4", "5", "6", "7", "8", "9"}

DigitVal(c) ==
    CASE c = "0" -> 0 [] c = "1" -> 1 [] c = "2" -> 2 [] c = "3" -> 3
      [] c = "4" -> 4 [] c = "5" -> 5 [] c = "6" -> 6 [] c = "7" -> 7
      [] c = "8" -> 8 [] c = "9" -> 9

\* int(s) for a string of decimal digits
RECURSIVE ToInt(_)
ToInt(s) ==
    IF s = << >> THEN 0
    ELSE 10 * ToInt(SubSeq(s, 1, Len(s) - 1)) + DigitVal(s[Len(s)])

\* str.startswith
StartsWith(line, prefix) ==
    /\ Len(line) >= Len(prefix)
    /\ SubSeq(line, 1, Len(prefix)) = prefix

\* str.count(",")
CommaCount(line) == Cardinality({i \in 1..Len(line) : line[i] = ","})

\* str.split(","): the pieces between consecutive commas, empty pieces kept
Split(line) ==
    LET cuts == {i \in 1..Len(line) : line[i] = ","}
        n    == Cardinality(cuts)
        \* position of the k-th comma; 0 before the first, Len+1 after the last
        Cut(k) == IF k = 0 THEN 0
                  ELSE IF k = n + 1 THEN Len(line) + 1
                  ELSE CHOOSE i \in cuts : Cardinality({j \in cuts : j < i}) = k - 1
    IN  [k \in 1..(n + 1) |-> SubSeq(line, Cut(k - 1) + 1, Cut(k) - 1)]

Address == <<"A", "d", "d", "r", "e", "s", "s">>
TYPE == <<"T", "Y", "P", "E">>

\* Mutation: the marker is looked for anywhere in the line (prefix in line)
FirstLineContaining(lines, prefix) ==
    LET hits == {i \in 1..Len(lines) :
                    \E k \in 0..(Len(lines[i]) - Len(prefix)) :
                        SubSeq(lines[i], k + 1, k + Len(prefix)) = prefix}
    IN  IF hits = {} THEN -1
        ELSE (CHOOSE i \in hits : \A j \in hits : i <= j) - 1

\* next((i for i, line in enumerate(lines) if line.startswith(prefix)), None)
FirstLineStartingWith(lines, prefix) ==
    LET hits == {i \in 1..Len(lines) : StartsWith(lines[i], prefix)}
    IN  IF hits = {} THEN -1
        ELSE (CHOOSE i \in hits : \A j \in hits : i <= j) - 1

\* start positions (1-based) of the matches of (9\d{4})(\d{4}) in a line
ZipMatches(line) ==
    {i \in 1..(Len(line) - 8) :
        /\ line[i] = "9"
        /\ \A k \in 1..8 : line[i + k] \in Digits}

\* Mutation: the pattern (\d{5})(\d{4}), which accepts any first digit
FindZipAnyDigit(line) ==
    LET m == {i \in 1..(Len(line) - 8) : \A k \in 0..8 : line[i + k] \in Digits}
    IN  IF m = {} THEN << >>
        ELSE LET i == CHOOSE i \in m : \A j \in m : i <= j
             IN  << ToInt(SubSeq(line, i, i + 4)), ToInt(SubSeq(line, i + 5, i + 8)) >>

\* Mutation: the last match is taken (findall(...)[-1])
FindZipLast(line) ==
    LET m == ZipMatches(line)
    IN  IF m = {} THEN << >>
        ELSE LET i == CHOOSE i \in m : \A j \in m : i >= j
             IN  << ToInt(SubSeq(line, i, i + 4)), ToInt(SubSeq(line, i + 5, i + 8)) >>

\* re.findall(r"(9\d{4})(\d{4})", line)[0] mapped through int; << >> on IndexError
FindZip(line) ==
    LET m == ZipMatches(line)
    IN  IF m = {} THEN << >>
        ELSE LET i == CHOOSE i \in m : \A j \in m : i <= j
             IN  << ToInt(SubSeq(line, i, i + 4)), ToInt(SubSeq(line, i + 5, i + 8)) >>

NoHeader == [zip_5_4 |-> << >>, header_line_num |-> -1, col_names |-> << >>]

MsgNoAddress == "Error: no line starting with Address found. This may be an invalid .csv"
MsgNoZip == "Error: no zip code found. This may be an invalid .csv"
MsgNoType == "Error: no line starting with TYPE found. This may be an invalid .csv"

\* The whole function: what it returns, or the st.error message it stops with
get_zip_header_line_col_names(lines) ==
    LET a == FirstLineStartingWith(lines, Address)
        h == FirstLineStartingWith(lines, TYPE)
    IN  IF a = -1
        THEN [stopped |-> TRUE, msg |-> MsgNoAddress, address |-> a, result |-> NoHeader]
        ELSE IF FindZip(lines[a + 1]) = << >>
        THEN [stopped |-> TRUE, msg |-> MsgNoZip, address |-> a, result |-> NoHeader]
        ELSE IF h = -1
        THEN [stopped |-> TRUE, msg |-> MsgNoType, address |-> a, result |-> NoHeader]
        ELSE [stopped |-> FALSE, msg |-> "", address |-> a,
              result |-> [zip_5_4 |-> FindZip(lines[a + 1]),
                          header_line_num |-> h,
                          col_names |-> Split(lines[h + 1])]]

(***************************************************************************)
(* read_process_csv                                                        *)
(***************************************************************************)
ColTYPE == <<"T", "Y", "P", "E">>
ColDATE == <<"D", "A", "T", "E">>
ColSTART_TIME == <<"S", "T", "A", "R", "T", " ", "T", "I", "M", "E">>
ColUSAGE_kWh == <<"U", "S", "A", "G", "E", " ", "(", "k", "W", "h", ")">>
ColCOST == <<"C", "O", "S", "T">>

\* position of a column name among the names given to read_csv, 0 if absent
ColIndex(names, name) ==
    LET hits == {k \in 1..Len(names) : names[k] = name}
    IN  IF hits = {} THEN 0 ELSE CHOOSE k \in hits : \A j \in hits : k <= j

\* a line without its line terminator, as the csv reader sees it
StripNewline(line) ==
    IF Len(line) > 0 /\ line[Len(line)] = "\n"
    THEN SubSeq(line, 1, Len(line) - 1) ELSE line

\* text that pandas / float() read as a number: digits with at most one point
IsNumber(s) ==
    /\ \E i \in 1..Len(s) : s[i] \in Digits
    /\ \A i \in 1..Len(s) : s[i] \in Digits \cup {"."}
    /\ Cardinality({i \in 1..Len(s) : s[i] = "."}) <= 1

\* float(x.replace("$", "")) succeeds on a COST cell
IsCost(s) == Len(s) > 0 /\ s[1] = "$" /\ IsNumber(Tail(s))

\* pd.read_csv(file, skiprows=header_line_num + 1, names=col_names) and the column
\* processing after it, reading `rest`, the lines from the file position on.
\* ok = FALSE stands for the exception the function raises (KeyError for a missing
\* column, AttributeError / ValueError / TypeError for a cell that is not of the
\* expected shape).  Rows keep DATE, START TIME and USAGE, the columns used later.
read_process_csv(rest, ha) ==
    LET skiprows == ha.header_line_num + 1
        names == ha.col_names
        skipped == IF skiprows <= Len(rest) THEN skiprows ELSE Len(rest)
        data == SubSeq(rest, skipped + 1, Len(rest))
        cells == [i \in 1..Len(data) |-> Split(StripNewline(data[i]))]
        cT == ColIndex(names, ColTYPE)
        cD == ColIndex(names, ColDATE)
        cS == ColIndex(names, ColSTART_TIME)
        cU == ColIndex(names, ColUSAGE_kWh)
        cC == ColIndex(names, ColCOST)
        columns_ok == cT > 0 /\ cD > 0 /\ cS > 0 /\ cU > 0 /\ cC > 0
        rows_ok == \A i \in 1..Len(data) :
                       /\ Len(cells[i]) = Len(names)
                       /\ IsCost(cells[i][cC])
                       /\ IsNumber(cells[i][cU])
    IN  IF columns_ok /\ rows_ok
        THEN [ok |-> TRUE, skipped |-> skipped,
              rows |-> [i \in 1..Len(data) |->
                           [DATE |-> cells[i][cD], TIME |-> cells[i][cS],
                            VALUE |-> cells[i][cU]]]]
        ELSE [ok |-> FALSE, skipped |-> skipped, rows |-> << >>]

(***************************************************************************)
(* Keys of the tables.  DATE and START TIME of the energy table are the    *)
(* strings of the file ("2020-10-31", "00:00"); DATE and TIME of the       *)
(* weather table are datetime.date / datetime.time objects, represented by *)
(* their ISO text ("2020-10-31", "01:00:00"), which orders as they do.     *)
(***************************************************************************)
\* code point of the characters that occur in keys
Ord(c) == IF c = "-" THEN 45 ELSE IF c = ":" THEN 58 ELSE 48 + DigitVal(c)

\* a < b for str: at the first position where they differ, or a a proper prefix
StrLess(a, b) ==
    \/ \E i \in 1..Len(a) :
          /\ i <= Len(b)
          /\ \A j \in 1..(i - 1) : a[j] = b[j]
          /\ Ord(a[i]) < Ord(b[i])
    \/ /\ Len(a) < Len(b)
       /\ \A j \in 1..Len(a) : a[j] = b[j]

\* Mutation: the keys in descending order
SortedKeysDescending(S) ==
    [i \in 1..Cardinality(S) |->
        CHOOSE x \in S : Cardinality({y \in S : StrLess(x, y)}) = i - 1]

\* the keys of S in ascending order
SortedKeys(S) ==
    [i \in 1..Cardinality(S) |->
        CHOOSE x \in S : Cardinality({y \in S : StrLess(y, x)}) = i - 1]

NoPivot == [ok |-> FALSE, index |-> << >>, columns |-> << >>, cells |-> {}]

\* two rows of the table carry the same (DATE, TIME) key
HasDuplicateKey(rows) ==
    \E i, j \in 1..Len(rows) :
        i < j /\ rows[i].DATE = rows[j].DATE /\ rows[i].TIME = rows[j].TIME

\* Mutation: a pivot that lets a later row overwrite the cell of an earlier one
pivot_overwrite(rows) ==
    LET last == {i \in 1..Len(rows) :
                    ~ \E j \in (i + 1)..Len(rows) :
                          rows[j].DATE = rows[i].DATE /\ rows[j].TIME = rows[i].TIME}
    IN  [ok |-> TRUE,
         index |-> SortedKeys({rows[i].TIME : i \in 1..Len(rows)}),
         columns |-> SortedKeys({rows[i].DATE : i \in 1..Len(rows)}),
         cells |-> {<<rows[i].TIME, rows[i].DATE, rows[i].VALUE>> : i \in last}]

\* DataFrame.pivot(index=TIME, columns=DATE, values=VALUE): ok = FALSE is
\* ValueError("Index contains duplicate entries, cannot reshape"); otherwise the
\* row and column labels are the distinct keys, sorted, and a cell exists for
\* every source row (the others are NaN)
pivot(rows) ==
    IF HasDuplicateKey(rows) THEN NoPivot
    ELSE [ok |-> TRUE,
          index |-> SortedKeys({rows[i].TIME : i \in 1..Len(rows)}),
          columns |-> SortedKeys({rows[i].DATE : i \in 1..Len(rows)}),
          cells |-> {<<rows[i].TIME, rows[i].DATE, rows[i].VALUE>> : i \in 1..Len(rows)}]

\* Mutation: keep="last"
drop_duplicates_keep_last(rows) ==
    LET keep == {i \in 1..Len(rows) :
                    ~ \E j \in (i + 1)..Len(rows) :
                          rows[j].DATE = rows[i].DATE /\ rows[j].TIME = rows[i].TIME}
        Nth(k) == CHOOSE i \in keep : Cardinality({j \in keep : j < i}) = k - 1
    IN  [k \in 1..Cardinality(keep) |-> rows[Nth(k)]]

\* df[~df.duplicated(subset=["DATE", "TIME"], keep="first")]
drop_duplicates(rows) ==
    LET keep == {i \in 1..Len(rows) :
                    ~ \E j \in 1..(i - 1) :
                          rows[j].DATE = rows[i].DATE /\ rows[j].TIME = rows[i].TIME}
        Nth(k) == CHOOSE i \in keep : Cardinality({j \in keep : j < i}) = k - 1
    IN  [k \in 1..Cardinality(keep) |-> rows[Nth(k)]]

(***************************************************************************)
(* get_process_weather.  An observation is [t, temp]: t the UTC hour       *)
(* counted from 2020-10-31T00:00Z, temp in Celsius.  In America/Los_Angeles*)
(* daylight saving ended on 2020-11-01 at 09:00Z (t = 33): local time is   *)
(* UTC-7 before it and UTC-8 from it on, so 01:00 occurs twice.            *)
(***************************************************************************)
DigitChar(d) ==
    CASE d = 0 -> "0" [] d = 1 -> "1" [] d = 2 -> "2" [] d = 3 -> "3"
      [] d = 4 -> "4" [] d = 5 -> "5" [] d = 6 -> "6" [] d = 7 -> "7"
      [] d = 8 -> "8" [] d = 9 -> "9"

\* f"{i:02}"
Pad2(i) == IF i < 100 THEN << DigitChar(i \div 10), DigitChar(i % 10) >>
           ELSE << DigitChar(i \div 100), DigitChar((i \div 10) % 10), DigitChar(i % 10) >>

Date_2020_10_31 == <<"2", "0", "2", "0", "-", "1", "0", "-", "3", "1">>
Date_2020_11_01 == <<"2", "0", "2", "0", "-", "1", "1", "-", "0", "1">>
Date_2020_11_02 == <<"2", "0", "2", "0", "-", "1", "1", "-", "0", "2">>

\* index.tz_convert(local_tz): local hour count of a UTC hour count
tz_convert(t) == IF t < 33 THEN t - 7 ELSE t - 8

\* index.date
LocalDate(t) ==
    LET day == tz_convert(t) \div 24
    IN  IF day = 0 THEN Date_2020_10_31
        ELSE IF day = 1 THEN Date_2020_11_01 ELSE Date_2020_11_02

\* index.time
LocalTime(t) == Pad2(tz_convert(t) % 24) \o <<":", "0", "0", ":", "0", "0">>

\* the rows get_process_weather returns for the observations fetched; index is
\* the row's timestamp, DATE and TIME its local date and clock time, VALUE is TEMP_F
get_process_weather(obs) ==
    [i \in 1..Len(obs) |->
        [index |-> obs[i].t, DATE |-> LocalDate(obs[i].t), TIME |-> LocalTime(obs[i].t),
         VALUE |-> (obs[i].temp * 9) \div 5 + 32]]

(***************************************************************************)
(* get_heatmap_ticks                                                       *)
(***************************************************************************)
month_order == << <<"J", "a", "n">>, <<"F", "e", "b">>, <<"M", "a", "r">>,
                  <<"A", "p", "r">>, <<"M", "a", "y">>, <<"J", "u", "n">>,
                  <<"J", "u", "l">>, <<"A", "u", "g">>, <<"S", "e", "p">>,
                  <<"O", "c", "t">>, <<"N", "o", "v">>, <<"D", "e", "c">> >>

\* str(col).endswith("01")
EndsWith01(col) ==
    Len(col) >= 2 /\ col[Len(col) - 1] = "0" /\ col[Len(col)] = "1"

\* col.strftime("%b %Y") of a date
MonthYear(col) ==
    month_order[ToInt(SubSeq(col, 6, 7))] \o <<" ">> \o SubSeq(col, 1, 4)

NoTicks == [x_ticks |-> << >>, x_tick_labels |-> << >>,
            y_ticks |-> << >>, y_tick_labels |-> << >>]

\* [i * 4 for i in range(7)]
custom_y_ticks == [i \in 1..7 |-> (i - 1) * 4]

get_heatmap_ticks(m) ==
    LET first == {k \in 1..Len(m.columns) : EndsWith01(m.columns[k])}
        Nth(n) == CHOOSE k \in first : Cardinality({j \in first : j < k}) = n - 1
    IN  [x_ticks |-> [n \in 1..Cardinality(first) |-> Nth(n) - 1],
         x_tick_labels |-> [n \in 1..Cardinality(first) |-> MonthYear(m.columns[Nth(n)])],
         y_ticks |-> custom_y_ticks,
         y_tick_labels |-> [i \in 1..Len(custom_y_ticks) |->
                               Pad2(custom_y_ticks[i]) \o <<":", "0", "0">>]]

(***************************************************************************)
(* Inputs                                                                  *)
(***************************************************************************)
MaxLines == 3      \* lines of a document given to the header scan
MaxRows == 2       \* data rows of a document, rows of an energy table
NumStamps == 5     \* UTC hours the weather service can report, from t = 30 on

SeqsUpTo(S, n) == UNION {[1..k -> S] : k \in 0..n}

NL == <<"\n">>
NameLine == <<"N", "a", "m", "e", ",", "X", "\n">>
HeaderLine == <<"T", "Y", "P", "E", ",", "D", "A", "T", "E", ",",
                "S", "T", "A", "R", "T", " ", "T", "I", "M", "E", ",",
                "E", "N", "D", " ", "T", "I", "M", "E", ",",
                "U", "S", "A", "G", "E", " ", "(", "k", "W", "h", ")", ",",
                "C", "O", "S", "T", ",", "N", "O", "T", "E", "S", "\n">>
ShortHeaderLine == <<"T", "Y", "P", "E", ",", "D", "A", "T", "E", "\n">>
BareHeaderLine == <<"T", "Y", "P", "E", "\n">>

\* what follows "Address," in an address line
ZipBodies ==
    { <<"9", "4", "0", "4", "3", "1", "2", "3", "4">>,            \* a 5+4 code
      <<"1", "0", "0", "0", "1", "1", "2", "3", "4">>,            \* 9 digits, no 9 first
      <<"9", "4", "0", "4", "3", "-", "1", "2", "3", "4">>,       \* hyphenated
      <<"9", "4", "0", "4", "3">>,                                \* 5 digits only
      <<"1", "9", "4", "0", "4", "3", "1", "2", "3", "4">>,       \* inside a longer run
      <<"1", "9", "4", "0", "4", "3", "1", "2", "3">>,            \* 9 digits, 9 second
      <<"9", "5", "0", "1", "4", "0", "0", "1", "2">>,            \* extension 0012
      <<"1", "0", "0", "0", "1", "1", "2", "3", "4", " ",
        "9", "5", "0", "1", "4", "0", "0", "1", "2">>,            \* second run matches
      <<"9", "9", "4", "0", "4", "3", "1", "2", "3", "4">>,       \* two overlapping starts
      <<"C", "A">> }                                              \* no digits

AddressLine(body) == Address \o <<",">> \o body \o NL

HeaderLines ==
    {AddressLine(b) : b \in ZipBodies}
    \cup {NameLine, <<" ">> \o AddressLine(<<"9", "4", "0", "4", "3", "1", "2", "3", "4">>)}
    \cup {HeaderLine, ShortHeaderLine, BareHeaderLine}

HeaderDocs == SeqsUpTo(HeaderLines, MaxLines)

EnergyDates == {Date_2020_10_31, Date_2020_11_01}
EnergyTimes == { <<"0", "0", ":", "0", "0">>, <<"0", "1", ":", "0", "0">>,
                 <<"2", "3", ":", "0", "0">> }
Usage == <<"0", ".", "5", "0">>

EnergyRows == {[DATE |-> d, TIME |-> t, VALUE |-> Usage] : d \in EnergyDates, t \in EnergyTimes}
\* one date with a row for each of the 24 hours
FullDayTable ==
    [h \in 1..24 |-> [DATE |-> Date_2020_11_01,
                      TIME |-> Pad2(h - 1) \o <<":", "0", "0">>,
                      VALUE |-> Usage]]

\* the energy table is never empty where it is pivoted (df.index[0] was read)
EnergyTables == (SeqsUpTo(EnergyRows, MaxRows) \ { << >> }) \cup {FullDayTable}

\* the line of the file an energy row comes from
DataLine(row) ==
    <<"E", "l", "e", "c", "t", "r", "i", "c", " ", "u", "s", "a", "g", "e", ",">>
    \o row.DATE \o <<",">> \o row.TIME \o <<",", "0", "0", ":", "5", "9", ",">>
    \o row.VALUE \o <<",", "$", "0", ".", "1", "0", ",", "\n">>

GoodAddress == AddressLine(<<"C", "A", " ", "9", "4", "0", "4", "3", "1", "2", "3", "4">>)

Preambles ==
    { <<NameLine, GoodAddress, HeaderLine>>,
      <<GoodAddress, NameLine, HeaderLine>>,
      <<HeaderLine, GoodAddress>>,                  \* header before the address
      <<NameLine, HeaderLine>>,                     \* no address line
      <<AddressLine(<<"C", "A">>), HeaderLine>>,    \* no zip code
      <<NameLine, GoodAddress>>,                    \* no header line
      <<GoodAddress, ShortHeaderLine>> }            \* header without the columns used

PipelineDocs ==
    {pre \o [i \in 1..Len(t) |-> DataLine(t[i])] :
        pre \in Preambles, t \in SeqsUpTo(EnergyRows, MaxRows)}

Stamps == 30..(29 + NumStamps)
Temps == {10, 20}

\* the observations in ascending time order
AscendingObs(f) ==
    LET S == DOMAIN f
    IN  [i \in 1..Cardinality(S) |->
            LET t == CHOOSE x \in S : Cardinality({y \in S : y < x}) = i - 1
            IN  [t |-> t, temp |-> f[t]]]

\* the 24 hours of 2020-11-02 local time (t = 56 is 00:00 PST)
FullDayFetch == [i \in 1..24 |-> [t |-> 55 + i, temp |-> 10]]

\* what Hourly(...).fetch() can return: some of the hours around the end of
\* daylight saving, each once, in time order; or one whole day
WeatherFetches ==
    UNION {{AscendingObs(f) : f \in [S -> Temps]} : S \in (SUBSET Stamps) \ {{}}}
    \cup {FullDayFetch}

NoFile == [present |-> FALSE, lines |-> << >>]
File(d) == [present |-> TRUE, lines |-> d]

MsgCouldNotRead == "Error: could not read"
MsgException == "uncaught exception"

(***************************************************************************)
(* The script                                                              *)
(***************************************************************************)
\* file.readlines(): the lines from the position to the end
readlines(f, pos) == SubSeq(f.lines, pos + 1, Len(f.lines))

\* Mutation: the rewind is missing
seek_none(pos) == pos

\* upload_csv.seek(0): the position after it
seek_0(pos) == 0

\* Mutation: the exception is swallowed and the script goes on
step_after_swallowed(ok, next) == next

\* an exception raised by a step is not caught: the run ends there
step_after(ok, next) == IF ok THEN next ELSE "crashed"

Failed == {"stopped", "crashed"}

StartState(f, p) ==
    /\ upload_csv = f
    /\ file_pos = 0
    /\ pc = p
    /\ address_line_num = -1
    /\ header_address = NoHeader
    /\ error_msg = ""
    /\ csv_start = -1
    /\ csv_skipped = -1
    /\ df = << >>
    /\ electric_map_df = NoPivot
    /\ weather_fetched = << >>
    /\ weather_hourly_df = << >>
    /\ weather_map_df = NoPivot
    /\ custom_ticks = NoTicks
    /\ charts = 0

\* st.file_uploader returned a file, or None
Init ==
    \E f \in {NoFile} \cup {File(d) : d \in PipelineDocs} :
        StartState(f, IF f.present THEN "locate_header" ELSE "open_default")

\* lines 452-461: no upload, read the default file; st.stop() if that fails
OpenDefaultFile ==
    /\ pc = "open_default"
    /\ ~ upload_csv.present
    /\ \/ \E d \in PipelineDocs :
             /\ upload_csv' = File(d)
             /\ file_pos' = 0
             /\ pc' = "locate_header"
             /\ UNCHANGED error_msg
       \/ /\ error_msg' = MsgCouldNotRead
          /\ pc' = "stopped"
          /\ UNCHANGED << upload_csv, file_pos >>
    /\ UNCHANGED << address_line_num, header_address, csv_start, csv_skipped, df,
                    electric_map_df, weather_fetched, weather_hourly_df, weather_map_df,
                    custom_ticks, charts >>

\* line 464: header_address = get_zip_header_line_col_names(upload_csv)
LocateHeader ==
    /\ pc = "locate_header"
    /\ upload_csv.present
    /\ LET lines == readlines(upload_csv, file_pos)
           r == get_zip_header_line_col_names(lines)
       IN  /\ file_pos' = file_pos + Len(lines)
           /\ address_line_num' = r.address
           /\ header_address' = r.result
           /\ error_msg' = r.msg
           /\ pc' = IF r.stopped THEN "stopped" ELSE "rewind"
    /\ UNCHANGED << upload_csv, csv_start, csv_skipped, df, electric_map_df,
                    weather_fetched, weather_hourly_df, weather_map_df, custom_ticks, charts >>

\* line 469: upload_csv.seek(0)
Rewind ==
    /\ pc = "rewind"
    /\ file_pos' = seek_0(file_pos)
    /\ pc' = "read_csv"
    /\ UNCHANGED << upload_csv, address_line_num, header_address, error_msg,
                    csv_start, csv_skipped, df, electric_map_df,
                    weather_fetched, weather_hourly_df, weather_map_df, custom_ticks, charts >>

\* line 472: df = read_process_csv(upload_csv, header_address)
ReadCsv ==
    /\ pc = "read_csv"
    /\ LET rest == readlines(upload_csv, file_pos)
           r == read_process_csv(rest, header_address)
       IN  /\ csv_start' = file_pos
           /\ csv_skipped' = r.skipped
           /\ file_pos' = file_pos + Len(rest)
           /\ df' = r.rows
           /\ error_msg' = IF r.ok THEN "" ELSE MsgException
           /\ pc' = step_after(r.ok, "start_end")
    /\ UNCHANGED << upload_csv, address_line_num, header_address, electric_map_df,
                    weather_fetched, weather_hourly_df, weather_map_df, custom_ticks, charts >>

\* lines 475-478: df.index[0] and df.index[-1] (IndexError on an empty table),
\* then the daily resample
StartEnd ==
    /\ pc = "start_end"
    /\ error_msg' = IF df # << >> THEN "" ELSE MsgException
    /\ pc' = step_after(df # << >>, "pivot_energy")
    /\ UNCHANGED << upload_csv, file_pos, address_line_num, header_address,
                    csv_start, csv_skipped, df, electric_map_df,
                    weather_fetched, weather_hourly_df, weather_map_df, custom_ticks, charts >>

\* line 481: electric_map_df = df.pivot(...)
PivotEnergy ==
    /\ pc = "pivot_energy"
    /\ electric_map_df' = pivot(df)
    /\ error_msg' = IF electric_map_df'.ok THEN "" ELSE MsgException
    /\ pc' = step_after(electric_map_df'.ok, "get_weather")
    /\ UNCHANGED << upload_csv, file_pos, address_line_num, header_address,
                    csv_start, csv_skipped, df, weather_fetched, weather_hourly_df, weather_map_df,
                    custom_ticks, charts >>

\* line 484: the zip lookup and the weather fetch, which return or raise
GetWeather ==
    /\ pc = "get_weather"
    /\ \/ \E obs \in WeatherFetches :
             /\ weather_fetched' = get_process_weather(obs)
             /\ weather_hourly_df' = weather_fetched'
             /\ pc' = "dedup_weather"
             /\ UNCHANGED error_msg
       \/ /\ error_msg' = MsgException
          /\ pc' = step_after(FALSE, "dedup_weather")
          /\ UNCHANGED << weather_fetched, weather_hourly_df >>
    /\ UNCHANGED << upload_csv, file_pos, address_line_num, header_address,
                    csv_start, csv_skipped, df, electric_map_df, weather_map_df,
                    custom_ticks, charts >>

\* lines 487-489
DedupWeather ==
    /\ pc = "dedup_weather"
    /\ weather_hourly_df' = drop_duplicates(weather_hourly_df)
    /\ pc' = "pivot_weather"
    /\ UNCHANGED << upload_csv, file_pos, address_line_num, header_address,
                    error_msg, csv_start, csv_skipped, df, electric_map_df,
                    weather_fetched, weather_map_df, custom_ticks, charts >>

\* lines 492-494: weather_map_df = weather_hourly_df.pivot(...)
PivotWeather ==
    /\ pc = "pivot_weather"
    /\ weather_map_df' = pivot(weather_hourly_df)
    /\ error_msg' = IF weather_map_df'.ok THEN "" ELSE MsgException
    /\ pc' = step_after(weather_map_df'.ok, "heatmap_ticks")
    /\ UNCHANGED << upload_csv, file_pos, address_line_num, header_address,
                    csv_start, csv_skipped, df, electric_map_df, weather_fetched, weather_hourly_df,
                    custom_ticks, charts >>

\* line 517: custom_ticks = get_heatmap_ticks(weather_map_df)
HeatmapTicks ==
    /\ pc = "heatmap_ticks"
    /\ custom_ticks' = get_heatmap_ticks(weather_map_df)
    /\ pc' = "heatmaps"
    /\ UNCHANGED << upload_csv, file_pos, address_line_num, header_address,
                    error_msg, csv_start, csv_skipped, df, electric_map_df,
                    weather_fetched, weather_hourly_df, weather_map_df, charts >>

\* lines 548-549, 568-569, 603-604, 620: each chart is built and drawn in turn
PlotChart ==
    /\ pc \in {"heatmaps", "line_plots", "bar_hour", "bar_month"}
    /\ charts' = charts + 1
    /\ pc' = CASE pc = "heatmaps" -> "line_plots"
               [] pc = "line_plots" -> "bar_hour"
               [] pc = "bar_hour" -> "bar_month"
               [] pc = "bar_month" -> "done"
    /\ UNCHANGED << upload_csv, file_pos, address_line_num, header_address,
                    error_msg, csv_start, csv_skipped, df, electric_map_df,
                    weather_fetched, weather_hourly_df, weather_map_df, custom_ticks >>

Next ==
    \/ OpenDefaultFile
    \/ LocateHeader
    \/ Rewind
    \/ ReadCsv
    \/ StartEnd
    \/ PivotEnergy
    \/ GetWeather
    \/ DedupWeather
    \/ PivotWeather
    \/ HeatmapTicks
    \/ PlotChart

Spec == Init /\ [][Next]_vars

\* The header scan alone, over every document of up to MaxLines lines
InitHeader == \E d \in HeaderDocs : StartState(File(d), "locate_header")

NextHeader == LocateHeader

SpecHeader == InitHeader /\ [][NextHeader]_vars

\* The reshaping steps alone, over every energy table and every weather fetch
InitReshape ==
    /\ \E t \in EnergyTables : df = t
    /\ upload_csv = NoFile
    /\ file_pos = 0
    /\ pc = "pivot_energy"
    /\ address_line_num = -1
    /\ header_address = NoHeader
    /\ error_msg = ""
    /\ csv_start = -1
    /\ csv_skipped = -1
    /\ electric_map_df = NoPivot
    /\ weather_fetched = << >>
    /\ weather_hourly_df = << >>
    /\ weather_map_df = NoPivot
    /\ custom_ticks = NoTicks
    /\ charts = 0

NextReshape ==
    \/ PivotEnergy
    \/ GetWeather
    \/ DedupWeather
    \/ PivotWeather
    \/ HeatmapTicks

SpecReshape == InitReshape /\ [][NextReshape]_vars

(***************************************************************************)
(* Properties of the header scan (checked under SpecHeader)                *)
(***************************************************************************)
Scanned == pc \in {"rewind", "stopped"}

AddressLineNums ==
    {i \in 1..Len(upload_csv.lines) : StartsWith(upload_csv.lines[i], Address)}
TypeLineNums ==
    {i \in 1..Len(upload_csv.lines) : StartsWith(upload_csv.lines[i], TYPE)}
FirstAddressLine ==
    upload_csv.lines[CHOOSE i \in AddressLineNums : \A j \in AddressLineNums : i <= j]

\* the 9-character substrings of a line that are all digits
NineDigitCodes(line) ==
    {s \in {SubSeq(line, i, i + 8) : i \in 1..(Len(line) - 8)} :
        \A k \in 1..9 : s[k] \in Digits}

\* start positions of the 9-digit substrings whose first digit is 9
WestCodeStarts(line) ==
    {i \in 1..(Len(line) - 8) :
        LET s == SubSeq(line, i, i + 8) IN s \in NineDigitCodes(line) /\ s[1] = "9"}

\* the decimal digits of a natural number
RECURSIVE Decimal(_)
Decimal(n) ==
    IF n < 10 THEN << DigitChar(n) >>
    ELSE Decimal(n \div 10) \o << DigitChar(n % 10) >>

WellFormedHeader ==
    /\ Len(Decimal(header_address.zip_5_4[1])) = 5
    /\ Decimal(header_address.zip_5_4[1])[1] = "9"
    /\ Len(header_address.col_names)
         = CommaCount(upload_csv.lines[header_address.header_line_num + 1]) + 1

\* C1 as stated: a document with an Address line that embeds a 9-digit code and
\* with a TYPE line yields a HeaderAddress whose primary zip component has 5 digits
\* starting with 9 and whose column list has comma-count + 1 entries.
C1_AnyNineDigitCode ==
    ( /\ Scanned
      /\ \E i \in AddressLineNums : NineDigitCodes(upload_csv.lines[i]) # {}
      /\ TypeLineNums # {} )
    => (pc = "rewind" /\ WellFormedHeader)

\* C1 amended: when the first Address line embeds a 9-digit code whose first digit
\* is 9, and a TYPE line exists, a HeaderAddress is returned; and every
\* HeaderAddress returned has a primary zip component of 5 digits starting with 9
\* and a column list of comma-count + 1 entries.
C1_WestCoastCode ==
    /\ ( /\ Scanned
         /\ AddressLineNums # {}
         /\ TypeLineNums # {} )
       => (WestCodeStarts(FirstAddressLine) # {} => pc = "rewind")
    /\ pc = "rewind" => WellFormedHeader

C1_Witness ==
    /\ pc = "rewind"
    /\ address_line_num > 0
    /\ Len(header_address.col_names) = 7
    /\ header_address.zip_5_4[1] = 95014

\* C2: a document without a line starting with Address, or without a line starting
\* with TYPE, stops with one of the error messages and returns no HeaderAddress.
C2_MissingMarker ==
    (Scanned /\ (AddressLineNums = {} \/ TypeLineNums = {}))
    => /\ pc = "stopped"
       /\ error_msg \in {MsgNoAddress, MsgNoZip, MsgNoType}
       /\ header_address = NoHeader

C2_Witness ==
    /\ pc = "stopped"
    /\ error_msg = MsgNoType
    /\ AddressLineNums # {}
    /\ TypeLineNums = {}

\* C3: the zip code is looked for in the first Address line only: the scan stops
\* with "no zip code found" exactly when that line has no 9-digit substring whose
\* first digit is 9, and a HeaderAddress returned carries the first such substring,
\* its first 5 and its last 4 digits.
C3_ZipInFirstAddressLine ==
    (Scanned /\ AddressLineNums # {})
    => LET starts == WestCodeStarts(FirstAddressLine)
           first == CHOOSE i \in starts : \A j \in starts : i <= j
       IN  /\ error_msg = MsgNoZip <=> starts = {}
           /\ error_msg = MsgNoZip => pc = "stopped"
           /\ pc = "rewind" =>
                 header_address.zip_5_4
                   = << ToInt(SubSeq(FirstAddressLine, first, first + 4)),
                        ToInt(SubSeq(FirstAddressLine, first + 5, first + 8)) >>

C3_Witness ==
    /\ error_msg = MsgNoZip
    /\ \E i \in AddressLineNums : WestCodeStarts(upload_csv.lines[i]) # {}

\* C4 as stated: the header line index of a returned HeaderAddress is greater than
\* the index of the Address line.
C4_HeaderAfterAddress ==
    pc = "rewind" => header_address.header_line_num > address_line_num

(***************************************************************************)
(* Properties of the reshaping steps (checked under SpecReshape)           *)
(***************************************************************************)
\* seconds since midnight of a time key "HH:MM" or "HH:MM:SS"
TimeOfDay(key) ==
    ToInt(SubSeq(key, 1, 2)) * 3600 + ToInt(SubSeq(key, 4, 5)) * 60
      + (IF Len(key) = 8 THEN ToInt(SubSeq(key, 7, 8)) ELSE 0)

\* a number that grows with the calendar date of a key "YYYY-MM-DD"
DateOrdinal(key) ==
    ToInt(SubSeq(key, 1, 4)) * 10000 + ToInt(SubSeq(key, 6, 7)) * 100
      + ToInt(SubSeq(key, 9, 10))

ChronologicalRows(m) ==
    \A i, j \in 1..Len(m.index) : i < j => TimeOfDay(m.index[i]) < TimeOfDay(m.index[j])

ChronologicalColumns(m) ==
    \A i, j \in 1..Len(m.columns) :
        i < j => DateOrdinal(m.columns[i]) < DateOrdinal(m.columns[j])

FullDay(m) ==
    /\ Len(m.index) = 24
    /\ \A i \in 1..Len(m.index) : TimeOfDay(m.index[i]) = (i - 1) * 3600

ObservedAxes(m, rows) ==
    /\ {m.index[i] : i \in 1..Len(m.index)} = {rows[i].TIME : i \in 1..Len(rows)}
    /\ {m.columns[i] : i \in 1..Len(m.columns)} = {rows[i].DATE : i \in 1..Len(rows)}

KeyOf(row) == << row.DATE, row.TIME >>

UniqueKeys(rows) == Cardinality({KeyOf(rows[i]) : i \in 1..Len(rows)}) = Len(rows)

\* C6: a pivot is produced only from rows in which each (date, time-of-day) key
\* occurs once, one cell per row; rows with a repeated key make the step fail,
\* for the energy pivot and for the weather pivot.
C6_NoSilentOverwrite ==
    /\ electric_map_df.ok =>
          UniqueKeys(df) /\ Cardinality(electric_map_df.cells) = Len(df)
    /\ weather_map_df.ok =>
          /\ UniqueKeys(weather_hourly_df)
          /\ Cardinality(weather_map_df.cells) = Len(weather_hourly_df)
    /\ (pc # "pivot_energy" /\ ~ UniqueKeys(df)) =>
          /\ pc = "crashed"
          /\ ~ electric_map_df.ok
          /\ error_msg = MsgException
    /\ (pc \in {"heatmap_ticks", "heatmaps"} /\ ~ UniqueKeys(weather_hourly_df)) =>
          ~ weather_map_df.ok
    /\ pc \in {"heatmap_ticks", "heatmaps"} => weather_map_df.ok

C6_Witness ==
    /\ pc = "crashed"
    /\ ~ UniqueKeys(df)
    /\ electric_map_df = NoPivot

\* every row of new is the first row of old with its key, and every key of old
\* has exactly one row in new
KeepsFirst(old, new) ==
    /\ \A i \in 1..Len(new) :
          \E j \in 1..Len(old) :
              /\ old[j] = new[i]
              /\ \A k \in 1..(j - 1) : KeyOf(old[k]) # KeyOf(old[j])
    /\ \A j \in 1..Len(old) :
          Cardinality({i \in 1..Len(new) : KeyOf(new[i]) = KeyOf(old[j])}) = 1

\* C7: when weather rows share a (DATE, TIME) key, the de-duplication keeps one row
\* per key, the first in row order, and the weather pivot does not fail.
C7_KeepFirst ==
    /\ pc \in {"pivot_weather", "heatmap_ticks", "heatmaps"} =>
          KeepsFirst(weather_fetched, weather_hourly_df)
    /\ pc = "pivot_weather" => pivot(weather_hourly_df).ok
    /\ pc \in {"heatmap_ticks", "heatmaps"} => weather_map_df.ok

C7_Witness ==
    /\ pc = "heatmaps"
    /\ ~ UniqueKeys(weather_fetched)
    /\ Len(weather_hourly_df) + 1 = Len(weather_fetched)
    /\ weather_map_df.ok

\* C8 as stated: the y ticks are those of 0, 4, ..., 24 that are row positions of
\* the matrix (0 .. rows - 1), each labelled "HH:00".
C8_TicksInRange ==
    pc = "heatmaps" =>
        LET rows == Len(weather_map_df.index)
            y == custom_ticks.y_ticks
        IN  /\ {y[i] : i \in 1..Len(y)} = {k \in {0, 4, 8, 12, 16, 20, 24} : k <= rows - 1}
            /\ \A i \in 1..Len(y) :
                  custom_ticks.y_tick_labels[i] = Pad2(y[i]) \o <<":", "0", "0">>

(***************************************************************************)
(* Properties of the run (checked under Spec)                              *)
(***************************************************************************)
\* C9: a failure ends the run: once the header scan, the default file, the csv
\* parse, the weather fetch or a pivot has failed, no chart has been drawn and no
\* further step is taken; charts are drawn only after all of them succeeded.
C9_FailureIsTerminal ==
    /\ error_msg # "" => pc \in Failed
    /\ pc \in Failed => (charts = 0 /\ ~ ENABLED Next)
    /\ charts > 0 =>
          /\ header_address # NoHeader
          /\ df # << >>
          /\ electric_map_df.ok
          /\ weather_map_df.ok

C9_Witness ==
    /\ pc = "crashed"
    /\ header_address # NoHeader
    /\ df # << >>
    /\ electric_map_df = NoPivot
    /\ charts = 0

\* C10: the header scan leaves the document at its end, the document is back at
\* its start when the csv parse begins, and the parse skips header_line_num + 1
\* lines, so that the table has one row for each line after the header line.
C10_RewindBeforeParse ==
    /\ (upload_csv.present /\ pc \in {"rewind", "stopped"}) =>
          file_pos = Len(upload_csv.lines)
    /\ pc = "read_csv" => file_pos = 0
    /\ csv_start # -1 =>
          /\ csv_start = 0
          /\ csv_skipped = header_address.header_line_num + 1
    /\ (csv_start # -1 /\ pc # "crashed") =>
          Len(df) = Len(upload_csv.lines) - (header_address.header_line_num + 1)

C10_Witness ==
    /\ pc = "done"
    /\ csv_start = 0
    /\ csv_skipped = 3
    /\ Len(df) = 2

====
